---- MODULE Spec2Model ----
(***************************************************************************)
(* The rustapi user service (src/src/main.rs): process startup             *)
(* (setup_database, DatabaseConnection::new, main), the bounded SQLite     *)
(* connection pool, the four UserRepository statements and the four route  *)
(* handlers.                                                               *)
(*                                                                         *)
(* The persisted store (database file, applied migrations, users table,    *)
(* AUTOINCREMENT counter) survives a restart of the process; the requests  *)
(* in flight do not.  Every repository function issues one SQL statement,  *)
(* which SQLite executes atomically; a request therefore has two steps:    *)
(* it is received and asks the pool for a connection, and later its        *)
(* statement runs, the connection is released and the handler answers.     *)
(***************************************************************************)
EXTENDS Integers, Sequences, FiniteSets, Bags, TLC

\* ------------------------------------------------------------------ bounds
\* Spec: the pool is driven to exhaustion, the data are small.
MaxWaiters == 1
MaxBusy == 2
MaxId == 1
\* SpecData: few requests in flight, richer data.
DataInFlight == 2
DataMaxId == 3
\* Number of migration scripts under ./migrations.
NumMigrations == 2

\* ------------------------------------------------------- program constants
MaxConnections == 10
StatusOk == 200
StatusCreated == 201
StatusNotFound == 404
StatusInternalServerError == 500

VARIABLES
    pc,             \* where main() is: start, create, connect, migrate, bind,
                    \* serving, aborted (panic in expect), exited (bind error)
    dbExists,       \* the database file exists
    applied,        \* versions recorded in _sqlx_migrations
    autoincrement,  \* whether the migration declares id AUTOINCREMENT
    table,          \* users: id -> [username, email]
    seq,            \* sqlite_sequence for users (AUTOINCREMENT only)
    waiting,        \* bag of requests waiting for a pool connection
    holding,        \* bag of requests holding a pool connection
    resp,           \* <<>> or <<the response sent by this step>>
    live,           \* history: id -> record returned by a 201 and by no 200 delete since
    issued          \* history: ids returned by a 201

vars == <<pc, dbExists, applied, autoincrement, table, seq, waiting, holding,
          resp, live, issued>>

store == <<dbExists, applied, autoincrement, table, seq>>
history == <<live, issued>>

\* ------------------------------------------------------------- data types
None == <<>>
Some(x) == <<x>>

\* struct User { id: Option<i64>, username: String, email: String }
User(id, username, email) == [id |-> id, username |-> username, email |-> email]

\* Result<T, sqlx::Error>
Ok(v) == [ok |-> TRUE, val |-> v]
Err(e) == [ok |-> FALSE, err |-> e]

Migrations == 1..NumMigrations

Max(a, b) == IF a >= b THEN a ELSE b

MaxRowId(t) == IF DOMAIN t = {} THEN 0
               ELSE CHOOSE i \in DOMAIN t : \A j \in DOMAIN t : j <= i

\* The rowid SQLite assigns to an INSERT that gives none.
NewRowId(t, s, ai) == IF ai THEN Max(s, MaxRowId(t)) + 1 ELSE MaxRowId(t) + 1

Row(t, i) == User(Some(i), t[i].username, t[i].email)

RECURSIVE RowsOf(_, _)
RowsOf(t, ids) ==
    IF ids = {} THEN <<>>
    ELSE LET i == CHOOSE k \in ids : \A j \in ids : k <= j
         IN  <<Row(t, i)>> \o RowsOf(t, ids \ {i})

\* SELECT id, username, email FROM users: the rows in rowid order.
SelectAll(t) == RowsOf(t, DOMAIN t)

Without(f, i) == [k \in DOMAIN f \ {i} |-> f[k]]

\* ------------------------------------------------------------ repository
\* Each function is one statement: its result and the store after it.
Outcome(result, t, s) == [result |-> result, table |-> t, seq |-> s]

\* Mutant: the statement fetched with fetch_optional, which keeps one row.
list_users_OneRow(t, s) ==
    Outcome(Ok(IF DOMAIN t = {} THEN <<>> ELSE <<SelectAll(t)[1]>>), t, s)

\* SELECT id, username, email FROM users  (fetch_all)
UserRepository_list_users(t, s) == Outcome(Ok(SelectAll(t)), t, s)

\* Mutant: INSERT OR REPLACE with the id fixed to 1.
create_user_FixedId(t, s, ai, username, email) ==
    LET t2 == (1 :> [username |-> username, email |-> email]) @@ t
    IN  Outcome(Ok(Row(t2, 1)), t2, IF ai THEN Max(s, 1) ELSE s)

\* INSERT INTO users (username, email) VALUES (?, ?) RETURNING ...  (fetch_one)
UserRepository_create_user(t, s, ai, username, email) ==
    LET id == NewRowId(t, s, ai)
        t2 == (id :> [username |-> username, email |-> email]) @@ t
    IN  Outcome(Ok(Row(t2, id)), t2, IF ai THEN id ELSE s)

\* Mutant: the WHERE clause dropped, so the first row of the table is fetched.
get_user_by_id_NoWhere(t, s, user_id) ==
    Outcome(Ok(IF DOMAIN t = {} THEN None ELSE Some(SelectAll(t)[1])), t, s)

\* Mutant: fetch_one, which makes "no row" the error RowNotFound.
get_user_by_id_FetchOne(t, s, user_id) ==
    Outcome(IF user_id \in DOMAIN t THEN Ok(Some(Row(t, user_id)))
            ELSE Err("RowNotFound"), t, s)

\* SELECT id, username, email FROM users WHERE id = ?  (fetch_optional)
UserRepository_get_user_by_id(t, s, user_id) ==
    Outcome(Ok(IF user_id \in DOMAIN t THEN Some(Row(t, user_id)) ELSE None), t, s)

\* Mutant: SELECT in place of DELETE, the row is returned and stays.
delete_user_KeepsRow(t, s, user_id) ==
    Outcome(Ok(IF user_id \in DOMAIN t THEN Some(Row(t, user_id)) ELSE None), t, s)

\* Mutant: DELETE without RETURNING, the row goes and nothing is returned.
delete_user_NoReturning(t, s, user_id) ==
    Outcome(Ok(None), IF user_id \in DOMAIN t THEN Without(t, user_id) ELSE t, s)

\* DELETE FROM users WHERE id = ? RETURNING ...  (fetch_optional)
UserRepository_delete_user(t, s, user_id) ==
    IF user_id \in DOMAIN t
    THEN Outcome(Ok(Some(Row(t, user_id))), Without(t, user_id), s)
    ELSE Outcome(Ok(None), t, s)

\* A statement that fails (connectivity, I/O) changes nothing.
Failed(e, t, s) == Outcome(Err(e), t, s)

\* --------------------------------------------------------------- handlers
HttpResponse(status, body) == [status |-> status, body |-> body]

\* The match of each handler on the repository's result.
list_users_match(result) ==
    IF result.ok THEN HttpResponse(StatusOk, result.val)
    ELSE HttpResponse(StatusInternalServerError, "Error fetching users")

\* Mutant: HttpResponse::Ok() on the Ok arm.
create_user_match_Ok(result) ==
    IF result.ok THEN HttpResponse(StatusOk, result.val)
    ELSE HttpResponse(StatusInternalServerError, "Error creating user")

create_user_match(result) ==
    IF result.ok THEN HttpResponse(StatusCreated, result.val)
    ELSE HttpResponse(StatusInternalServerError, "Error creating user")

get_user_match(result) ==
    IF ~result.ok THEN HttpResponse(StatusInternalServerError, "Error fetching user")
    ELSE IF result.val = None THEN HttpResponse(StatusNotFound, "User not found")
    ELSE HttpResponse(StatusOk, result.val[1])

delete_user_match(result) ==
    IF ~result.ok THEN HttpResponse(StatusInternalServerError, "Error deleting user")
    ELSE IF result.val = None THEN HttpResponse(StatusNotFound, "User not found")
    ELSE HttpResponse(StatusOk, result.val[1])

Match(r, result) ==
    CASE r.op = "list" -> list_users_match(result)
      [] r.op = "create" -> create_user_match(result)
      [] r.op = "get" -> get_user_match(result)
      [] r.op = "delete" -> delete_user_match(result)

\* What a step that answers request r records.
Response(r, result) == <<[req |-> r, result |-> result, http |-> Match(r, result)]>>

\* --------------------------------------------------------------- requests
\* GET /users, POST /users (body: a User, id optional), GET and DELETE /users/{id}
Requests(ids, usernames, emails, bodyIds) ==
    {[op |-> "list"]}
    \cup {[op |-> "create", user |-> User(b, u, e)] :
             b \in bodyIds, u \in usernames, e \in emails}
    \cup {[op |-> "get", id |-> i] : i \in ids}
    \cup {[op |-> "delete", id |-> i] : i \in ids}

PoolRequests == Requests(1..MaxId, {"alice"}, {"a@x.com"}, {None})
DataRequests == Requests((1..DataMaxId) \cup {999}, {"alice", "bob"}, {"a@x.com"},
                         {None, Some(1)})

RECURSIVE CountIn(_, _)
CountIn(B, S) ==
    IF S = {} THEN 0
    ELSE LET r == CHOOSE x \in S : TRUE
         IN  CopiesIn(r, B) + CountIn(B, S \ {r})

\* Requests of bag B whose operation is in ops.
CountOps(B, ops) == CountIn(B, {r \in BagToSet(B) : r.op \in ops})

InUse == BagCardinality(holding)
InFlight == BagCardinality(waiting) + BagCardinality(holding)

One(r) == SetToBag({r})

\* ---------------------------------------------------------------- startup
Init ==
    /\ pc = "start"
    /\ dbExists = FALSE
    /\ applied = {}
    /\ autoincrement \in BOOLEAN
    /\ table = <<>>
    /\ seq = 0
    /\ waiting = EmptyBag
    /\ holding = EmptyBag
    /\ resp = <<>>
    /\ live = <<>>
    /\ issued = {}

Quiet == UNCHANGED <<waiting, holding, resp, history>>

\* setup_database: database_exists(..).await.unwrap_or(false); an error of the
\* check counts as "does not exist".
CheckDatabase ==
    /\ pc = "start"
    /\ \E exists \in {Ok(dbExists), Err("Configuration")} :
          LET found == IF exists.ok THEN exists.val ELSE FALSE
          IN  pc' = IF found THEN "connect" ELSE "create"
    /\ UNCHANGED store
    /\ Quiet

\* Mutant: the database file is created anew, empty.
CreateDatabase_Truncate ==
    /\ pc = "create"
    /\ \E ok \in BOOLEAN :
          IF ok THEN /\ dbExists' = TRUE
                     /\ applied' = {}
                     /\ table' = <<>>
                     /\ seq' = 0
                     /\ pc' = "connect"
          ELSE UNCHANGED <<dbExists, applied, table, seq>> /\ pc' = "aborted"
    /\ UNCHANGED autoincrement
    /\ Quiet

\* setup_database: create_database(..).await? ; it opens the file with
\* create_if_missing, so a file that exists keeps its contents.
CreateDatabase ==
    /\ pc = "create"
    /\ \E ok \in BOOLEAN :
          IF ok THEN dbExists' = TRUE /\ pc' = "connect"
          ELSE dbExists' = dbExists /\ pc' = "aborted"
    /\ UNCHANGED <<applied, autoincrement, table, seq>>
    /\ Quiet

\* DatabaseConnection::new: SqlitePoolOptions::new().max_connections(10).connect(..).await?
Connect ==
    /\ pc = "connect"
    /\ \E ok \in BOOLEAN :
          pc' = IF ok /\ dbExists THEN "migrate" ELSE "aborted"
    /\ UNCHANGED store
    /\ Quiet

Pending == Migrations \ applied

\* Mutant: the migrator's error is dropped (.ok() in place of ?).
Migrate_IgnoreError ==
    /\ pc = "migrate"
    /\ Pending # {}
    /\ LET m == CHOOSE v \in Pending : \A w \in Pending : v <= w
       IN  \E ok \in BOOLEAN :
              IF ok THEN applied' = applied \cup {m} /\ pc' = pc
              ELSE applied' = applied /\ pc' = "bind"
    /\ UNCHANGED <<dbExists, autoincrement, table, seq>>
    /\ Quiet

\* DatabaseConnection::new: sqlx::migrate!("./migrations").run(&pool).await? ; the
\* scripts not yet recorded are applied in version order, each in a transaction.
Migrate ==
    /\ pc = "migrate"
    /\ Pending # {}
    /\ LET m == CHOOSE v \in Pending : \A w \in Pending : v <= w
       IN  \E ok \in BOOLEAN :
              IF ok THEN applied' = applied \cup {m} /\ pc' = pc
              ELSE applied' = applied /\ pc' = "aborted"
    /\ UNCHANGED <<dbExists, autoincrement, table, seq>>
    /\ Quiet

\* DatabaseConnection::new returns Ok, setup_database returns the AppState.
SetupDone ==
    /\ pc = "migrate"
    /\ Pending = {}
    /\ pc' = "bind"
    /\ UNCHANGED store
    /\ Quiet

\* main: HttpServer::new(..).bind("0.0.0.0:8080")?.run()
Bind ==
    /\ pc = "bind"
    /\ \E ok \in BOOLEAN : pc' = IF ok THEN "serving" ELSE "exited"
    /\ UNCHANGED store
    /\ Quiet

\* The process ends (killed, panicked or exited) and main() runs again against
\* the same store; the requests that were in flight are gone.
Restart ==
    /\ pc # "start"
    /\ pc' = "start"
    /\ waiting' = EmptyBag
    /\ holding' = EmptyBag
    /\ resp' = <<>>
    /\ UNCHANGED store
    /\ UNCHANGED history

\* ------------------------------------------------------------------- pool
Highest == IF autoincrement THEN Max(seq, MaxRowId(table)) ELSE MaxRowId(table)

\* Mutant: a pool that opens a connection for every request.
Receive_Unbounded(r, cap, busy, maxId) ==
    /\ pc = "serving"
    /\ InFlight < cap
    /\ r.op # "list" =>
          CountOps(waiting (+) holding, {"create", "get", "delete"}) < busy
    /\ r.op = "create" =>
          Highest + CountOps(waiting (+) holding, {"create"}) < maxId
    /\ holding' = holding (+) One(r)
    /\ waiting' = waiting
    /\ resp' = <<>>
    /\ UNCHANGED <<pc, store, history>>

\* A request is routed to its handler, whose repository call asks the pool for
\* a connection: it gets one if fewer than max_connections are in use, and
\* waits otherwise.  cap, busy and maxId bound the load.
Receive(r, cap, busy, maxId) ==
    /\ pc = "serving"
    /\ InFlight < cap
    /\ r.op # "list" =>
          CountOps(waiting (+) holding, {"create", "get", "delete"}) < busy
    /\ r.op = "create" =>
          Highest + CountOps(waiting (+) holding, {"create"}) < maxId
    /\ IF InUse < MaxConnections
       THEN holding' = holding (+) One(r) /\ waiting' = waiting
       ELSE waiting' = waiting (+) One(r) /\ holding' = holding
    /\ resp' = <<>>
    /\ UNCHANGED <<pc, store, history>>

\* A waiting request is given a connection that has been released.
Acquire(r) ==
    /\ pc = "serving"
    /\ BagIn(r, waiting)
    /\ InUse < MaxConnections
    /\ waiting' = waiting (-) One(r)
    /\ holding' = holding (+) One(r)
    /\ resp' = <<>>
    /\ UNCHANGED <<pc, store, history>>

\* The pool's acquire timeout (PoolOptions default, not overridden) expires for
\* a waiting request: its repository call returns Err(PoolTimedOut).
AcquireTimeout(r) ==
    /\ pc = "serving"
    /\ BagIn(r, waiting)
    /\ waiting' = waiting (-) One(r)
    /\ resp' = Response(r, Err("PoolTimedOut"))
    /\ UNCHANGED <<pc, store, holding, history>>

\* --------------------------------------------------------- handler actions
IdOf(u) == IF u.id = None THEN 0 ELSE u.id[1]

\* The statement of request r ran with outcome out: the store is updated, the
\* connection goes back to the pool, the handler answers.
Answer(r, out) ==
    /\ table' = out.table
    /\ seq' = out.seq
    /\ holding' = holding (-) One(r)
    /\ resp' = Response(r, out.result)
    /\ LET h == Match(r, out.result)
       IN  IF r.op = "create" /\ h.status = StatusCreated
           THEN /\ live' = (IdOf(h.body) :> h.body) @@ live
                /\ issued' = issued \cup {IdOf(h.body)}
           ELSE IF r.op = "delete" /\ h.status = StatusOk
           THEN /\ live' = Without(live, IdOf(h.body))
                /\ issued' = issued
           ELSE UNCHANGED history
    /\ UNCHANGED <<pc, dbExists, applied, autoincrement, waiting>>

Running(r, op) == pc = "serving" /\ BagIn(r, holding) /\ r.op = op

list_users(r) ==
    /\ Running(r, "list")
    /\ \E fail \in BOOLEAN :
          Answer(r, IF fail THEN Failed("Database", table, seq)
                    ELSE UserRepository_list_users(table, seq))

create_user(r) ==
    /\ Running(r, "create")
    /\ \E fail \in BOOLEAN :
          Answer(r, IF fail THEN Failed("Database", table, seq)
                    ELSE UserRepository_create_user(table, seq, autoincrement,
                                                    r.user.username, r.user.email))

get_user(r) ==
    /\ Running(r, "get")
    /\ \E fail \in BOOLEAN :
          Answer(r, IF fail THEN Failed("Database", table, seq)
                    ELSE UserRepository_get_user_by_id(table, seq, r.id))

delete_user(r) ==
    /\ Running(r, "delete")
    /\ \E fail \in BOOLEAN :
          Answer(r, IF fail THEN Failed("Database", table, seq)
                    ELSE UserRepository_delete_user(table, seq, r.id))

\* ---------------------------------------------------------- specifications
Startup == CheckDatabase \/ CreateDatabase \/ Connect \/ Migrate \/ SetupDone \/ Bind

\* Spec: up to MaxConnections + MaxWaiters requests in flight.
Next ==
    \/ Startup
    \/ Restart
    \/ \E r \in PoolRequests : Receive(r, MaxConnections + MaxWaiters, MaxBusy, MaxId)
    \/ \E r \in BagToSet(waiting) : Acquire(r)
    \/ \E r \in BagToSet(waiting) : AcquireTimeout(r)
    \/ \E r \in BagToSet(holding) : list_users(r)
    \/ \E r \in BagToSet(holding) : create_user(r)
    \/ \E r \in BagToSet(holding) : get_user(r)
    \/ \E r \in BagToSet(holding) : delete_user(r)

Spec == Init /\ [][Next]_vars

\* SpecData: at most DataInFlight <= MaxConnections requests in flight, so that no
\* request ever waits for a connection and the two actions of a waiting request
\* are never enabled.
NextData ==
    \/ Startup
    \/ Restart
    \/ \E r \in DataRequests : Receive(r, DataInFlight, DataInFlight, DataMaxId)
    \/ \E r \in BagToSet(holding) : list_users(r)
    \/ \E r \in BagToSet(holding) : create_user(r)
    \/ \E r \in BagToSet(holding) : get_user(r)
    \/ \E r \in BagToSet(holding) : delete_user(r)

SpecData == Init /\ [][NextData]_vars

\* ------------------------------------------------------------- properties
Range(f) == {f[x] : x \in DOMAIN f}

\* This state is the one right after request op was answered.
Answered(op) == resp # <<>> /\ resp[1].req.op = op

\* The step answers a request op.
Answers(op) == resp' # <<>> /\ resp'[1].req.op = op

\* The repository call failed for a reason outside the statement itself.
StoreFailure(result) == ~result.ok /\ result.err \in {"Database", "PoolTimedOut"}

\* C1: a create that succeeds is answered with the record it was asked to
\* create, carrying an id; and a getById of the id of a record returned by a
\* create, with no delete of it since, is answered with that very record
\* (same id, same username, same email).
C1_CreateThenGet ==
    /\ (Answered("create") /\ resp[1].result.ok) =>
          /\ resp[1].http.status = StatusCreated
          /\ resp[1].http.body.id # None
          /\ resp[1].http.body.username = resp[1].req.user.username
          /\ resp[1].http.body.email = resp[1].req.user.email
    /\ (Answered("get") /\ ~StoreFailure(resp[1].result)
            /\ resp[1].req.id \in DOMAIN live) =>
          /\ resp[1].http.status = StatusOk
          /\ resp[1].http.body = live[resp[1].req.id]
          /\ resp[1].http.body.id = Some(resp[1].req.id)

C1_Witness ==
    /\ Answered("get")
    /\ resp[1].http.status = StatusOk
    /\ resp[1].req.id \in DOMAIN live
    /\ resp[1].http.body.username = "bob"

\* C2: a deleteById of an id whose record was returned by a create and not
\* deleted since is answered with that record and removes it from the store; a
\* deleteById of any other id (so also the second of two deletes) is answered
\* NotFound and leaves the store as it was.
C2_DeleteIdempotent ==
    [][(Answers("delete") /\ ~StoreFailure(resp'[1].result)) =>
          LET id == resp'[1].req.id
          IN  IF id \in DOMAIN live
              THEN /\ resp'[1].http.status = StatusOk
                   /\ resp'[1].http.body = live[id]
                   /\ id \notin DOMAIN table'
                   /\ id \notin DOMAIN live'
              ELSE /\ resp'[1].http.status = StatusNotFound
                   /\ table' = table
                   /\ seq' = seq]_vars

C2_Witness ==
    /\ Answered("delete")
    /\ resp[1].http.status = StatusNotFound
    /\ resp[1].req.id \in issued

\* C3: list() is answered with exactly the records returned by a create and not
\* deleted since, each once; the empty sequence when there is none.
C3_ListExact ==
    (Answered("list") /\ ~StoreFailure(resp[1].result)) =>
        /\ resp[1].http.status = StatusOk
        /\ Range(resp[1].http.body) = Range(live)
        /\ Len(resp[1].http.body) = Cardinality(DOMAIN live)

C3_Witness ==
    /\ Answered("list")
    /\ resp[1].http.status = StatusOk
    /\ Len(resp[1].http.body) = 3

\* C4: the status of every answer is the one of the route table: a store error
\* gives 500 on every route, a list 200, a create 201, a getById or deleteById
\* 200 with the record found and 404 when there is none.
C4_StatusTable ==
    resp # <<>> =>
        LET op == resp[1].req.op
            result == resp[1].result
            http == resp[1].http
        IN  IF ~result.ok THEN http.status = StatusInternalServerError
            ELSE IF op = "list" THEN http.status = StatusOk
            ELSE IF op = "create" THEN http.status = StatusCreated
            ELSE IF result.val = None THEN http.status = StatusNotFound
            ELSE http.status = StatusOk /\ http.body = result.val[1]

C4_Witness ==
    /\ Answered("create")
    /\ resp[1].http.status = StatusInternalServerError

\* C5: a deleteById is answered with the deleted record exactly when its row is
\* in the store when its statement runs, and the row is gone after it: of several
\* deletes of one id in flight together, the first to run gets the record and
\* the others NotFound.
C5_DeleteOnce ==
    [][(Answers("delete") /\ ~StoreFailure(resp'[1].result)) =>
          LET id == resp'[1].req.id
          IN  /\ (resp'[1].http.status = StatusOk) <=> (id \in DOMAIN table)
              /\ (resp'[1].http.status = StatusNotFound) <=> (id \notin DOMAIN table)
              /\ id \notin DOMAIN table'
              /\ resp'[1].http.status = StatusOk => resp'[1].http.body = Row(table, id)]_vars

C5_Witness ==
    /\ Answered("delete")
    /\ resp[1].http.status = StatusOk
    /\ BagIn(resp[1].req, holding)

\* C6: a create that succeeds is answered 201 with an id that no record of the
\* store has when its statement runs, and adds exactly that row; the username
\* and email need not be unique.
C6_FreshId ==
    [][(Answers("create") /\ ~StoreFailure(resp'[1].result)) =>
          /\ resp'[1].http.status = StatusCreated
          /\ resp'[1].http.body.id # None
          /\ IdOf(resp'[1].http.body) \notin DOMAIN table
          /\ DOMAIN table' = DOMAIN table \cup {IdOf(resp'[1].http.body)}
          /\ \A i \in DOMAIN table : table'[i] = table[i]]_vars

C6_Witness ==
    /\ Answered("create")
    /\ resp[1].http.status = StatusCreated
    /\ \E i \in DOMAIN table :
          /\ i # IdOf(resp[1].http.body)
          /\ table[i] = table[IdOf(resp[1].http.body)]
    /\ CountOps(holding, {"create"}) > 0

\* C7: a getById of an id that no create has returned is answered 404, unless
\* the store failed; the repository gives "no row", not an error.
C7_UnknownIdNotFound ==
    (Answered("get") /\ resp[1].req.id \notin issued
        /\ ~StoreFailure(resp[1].result)) =>
        /\ resp[1].result.ok
        /\ resp[1].http.status = StatusNotFound

C7_Witness ==
    /\ Answered("get")
    /\ resp[1].req.id = 999
    /\ issued = {}
    /\ resp[1].http.status = StatusNotFound

\* C8 as stated: never more than max_connections connections in use, and no
\* request is answered with an error because the pool was exhausted.
C8_NeverRejected ==
    /\ InUse <= MaxConnections
    /\ resp # <<>> =>
          (resp[1].result.ok \/ resp[1].result.err # "PoolTimedOut")

\* C8 amended: never more than max_connections connections are in use; a
\* request waits only when all of them are in use; a waiting request can take
\* a connection as soon as one is free; and only a request that was waiting is
\* answered with the pool's timeout error, which is a 500.
C8_BoundedPoolWaits ==
    /\ [](InUse <= MaxConnections)
    /\ [](\A r \in BagToSet(waiting) : InUse < MaxConnections => ENABLED Acquire(r))
    /\ [][/\ BagCardinality(waiting') > BagCardinality(waiting)
             => InUse = MaxConnections /\ resp' = <<>>
          /\ (resp' # <<>> /\ ~resp'[1].result.ok
                 /\ resp'[1].result.err = "PoolTimedOut")
             => /\ BagIn(resp'[1].req, waiting)
                /\ resp'[1].http.status = StatusInternalServerError
                /\ UNCHANGED <<store, holding>>]_vars

C8_Witness ==
    /\ waiting # EmptyBag
    /\ InUse = MaxConnections

\* C9: requests are received and answered only by a process that is serving,
\* and a process is binding or serving only when the database exists and every
\* migration is applied; a process that aborted or exited never serves.
C9_ServeOnlyMigrated ==
    /\ []((InFlight > 0 \/ resp # <<>>) => pc = "serving")
    /\ [](pc \in {"bind", "serving"} => dbExists /\ applied = Migrations)
    /\ [][(pc \in {"aborted", "exited"}) => (pc' \in {pc, "start"})]_vars

C9_Witness ==
    /\ pc = "aborted"
    /\ applied # {}
    /\ applied # Migrations

\* The store holds exactly the records answered by a create and not deleted since.
StoreIsLive ==
    /\ DOMAIN table = DOMAIN live
    /\ \A i \in DOMAIN live : Row(table, i) = live[i]

\* C10: whatever a process does before it serves, and its ending, leave the
\* records of the store and its AUTOINCREMENT counter as they are, keep the
\* database and the migrations already applied, so that a restarted service
\* holds exactly the records created and not deleted before.
C10_RestartKeepsRecords ==
    /\ [](pc # "serving" => StoreIsLive)
    /\ [][(pc # "serving" \/ pc' # "serving") =>
             /\ table' = table
             /\ seq' = seq
             /\ dbExists => dbExists'
             /\ applied \subseteq applied'
             /\ applied = Migrations => applied' = applied]_vars

C10_Witness ==
    /\ pc = "bind"
    /\ Cardinality(DOMAIN table) = 2

====
